---- MODULE Spec2Model ----
(***************************************************************************)
(* Inventory reservation and order lifecycle of the rental backend:        *)
(* cartService (checkStockAvailability, upsertCart) and salesOrderService  *)
(* (createOrdersFromCart, updateOrderStatus).  The store is the Prisma     *)
(* tables stock, stock_transactions, cart and sales_order; no handler runs *)
(* inside a transaction, so every awaited store call is one step and the   *)
(* steps of concurrent requests interleave.  Billing is salesInvoiceService *)
(* (createInvoice, updateInvoiceStatus) and calculateReturn over the tables *)
(* sales_invoice and payment_ledger, behind authMiddleware/roleMiddleware.  *)
(***************************************************************************)
EXTENDS Integers, Sequences, FiniteSets, TLC

\* ---------------------------------------------------------------- bounds
\* Requests served in one behaviour.
MaxRequests == 5
\* Last instant the clock reaches.
MaxTime == 1
\* Largest stock and largest number of movements of a direct availability call.
MaxStock == 3
MaxMoves == 2

\* ------------------------------------------------------- store contents
Null == "null"
\* A date column that is null.
NoDate == 0 - 1
\* stock.findUnique found no row for the product.
NoRow == [row |-> FALSE, totalPhysicalQuantity |-> 0]
\* The stock row of a product.
StockRow(n) == [row |-> TRUE, totalPhysicalQuantity |-> n]

\* Product rows (Product.id) in the order cart.findMany returns their lines.
ProductSeq == <<"p1", "p2", "p3">>
ProductIds == {ProductSeq[k] : k \in 1..Len(ProductSeq)}
\* Product.vendorId
vendorId == [p \in ProductIds |-> IF p = "p3" THEN "vB" ELSE "vA"]
Vendors == {vendorId[p] : p \in ProductIds}
Customers == {"c1", "c2"}
\* Product.dailyPrice, securityDeposit (0 where the column is null, which the
\* code reads as 0) and taxPercentage.  Amounts are whole currency units chosen
\* so that every tax amount is whole too.
dailyPrice == [p \in ProductIds |-> IF p = "p1" THEN 100 ELSE IF p = "p2" THEN 50 ELSE 200]
securityDeposit == [p \in ProductIds |-> IF p = "p1" THEN 500 ELSE 0]
taxPercentage == [p \in ProductIds |-> IF p = "p1" THEN 18 ELSE IF p = "p2" THEN 0 ELSE 5]
\* 1000 * 60 * 60 * 24 milliseconds: the clock counts half days.
DayLen == 2
\* Concurrent request handlers.
Procs == {"r1", "r2"}

\* users.role of the users: vendors, customers and an administrator.
Users == Vendors \cup Customers \cup {"admin"}
role == [u \in Users |->
           IF u \in Vendors THEN "VENDOR" ELSE IF u \in Customers THEN "CUSTOMER" ELSE "ADMIN"]
\* A request without a bearer token, or with one that does not verify.
NoToken == "anonymous"
Callers == Users \cup {NoToken}

\* enum DeliveryStatus
DeliveryStatus == {"PROCESSING", "DISPATCHED", "DELIVERED", "COMPLETED", "RETURNED"}
\* Math.floor(1000 + Math.random() * 9000): two of the suffixes.
RandomSuffixes == {"1000", "1001"}

\* enum OrderStatus
OrderStatus == {"DRAFT", "SENT", "APPROVED", "REJECTED", "CONFIRMED", "CANCELLED"}
\* Target statuses the vendor sends.
StatusInputs == {"APPROVED", "DRAFT"}

\* Rental windows a customer asks for: two that overlap.
Windows == {[startDate |-> 0, endDate |-> 2], [startDate |-> 1, endDate |-> 3]}
\* Stock rows the seed leaves behind: products created later have none.
InitStock == [p \in ProductIds |->
                IF p = "p1" THEN StockRow(2) ELSE IF p = "p2" THEN StockRow(1) ELSE NoRow]
\* Two units of the first product, one of every other.
InitStockShop == [p \in ProductIds |-> IF p = "p1" THEN StockRow(2) ELSE StockRow(1)]

VARIABLES
  stock,      \* the stock row of each product, or NoRow
  movements,  \* stock_transactions rows, in creation order
  orders,     \* sales_order rows with their details; the id is the index
  cart,       \* cart rows: per user, one line per product that has one
  now,        \* the clock new Date() reads
  req,        \* the request each handler is serving and its local variables
  nreq,       \* requests started so far
  avail,      \* a direct checkStockAvailability call and its answer
  invoices,   \* sales_invoice rows, in creation order; the id is the index
  paymentLedgers  \* payment_ledger rows

vars == <<stock, movements, orders, cart, now, req, nreq, avail, invoices,
          paymentLedgers>>

\* ------------------------------------------------------------- helpers
RECURSIVE SumSeq(_)
SumSeq(s) == IF s = <<>> THEN 0 ELSE Head(s) + SumSeq(Tail(s))

RECURSIVE SelectSeqBy(_, _)
\* s restricted to the positions in keep, in order.
SelectSeqBy(s, keep) ==
  IF s = <<>> THEN <<>>
  ELSE LET rest == SelectSeqBy(Tail(s), {k - 1 : k \in keep \ {1}})
       IN IF 1 \in keep THEN <<Head(s)>> \o rest ELSE rest

\* stock?.totalPhysicalQuantity || 0
totalOrZero(row) == IF ~row.row THEN 0 ELSE row.totalPhysicalQuantity

\* The where clause of stockTransaction.findMany in checkStockAvailability.
overlapsClosed(m, productId, startDate, endDate) ==
  /\ m.productId = productId
  /\ m.deletedAt = Null
  /\ m.startDate <= endDate
  /\ m.endDate >= startDate
overlaps(m, productId, startDate, endDate) ==
  /\ m.productId = productId
  /\ m.deletedAt = Null
  /\ m.startDate < endDate
  /\ m.endDate > startDate

\* bookedTransactions.reduce((acc, item) => acc + item.quantity, 0)
bookedQuantity(mvs, productId, startDate, endDate) ==
  SumSeq([k \in 1..Len(mvs) |->
            IF overlaps(mvs[k], productId, startDate, endDate)
            THEN mvs[k].quantity ELSE 0])

\* availableStock >= requestedQuantity, from the two reads of the check.
isAvailable(totalStock, mvs, productId, startDate, endDate, requestedQuantity) ==
  totalStock - bookedQuantity(mvs, productId, startDate, endDate) >= requestedQuantity

\* cartService.checkStockAvailability when both reads see the same store state.
checkStockAvailability(stk, mvs, productId, startDate, endDate, requestedQuantity) ==
  isAvailable(totalOrZero(stk[productId]), mvs, productId, startDate, endDate,
              requestedQuantity)

\* No direct call yet.
NoCall == [productId |-> Null, startDate |-> NoDate, endDate |-> NoDate,
           requestedQuantity |-> 0, result |-> FALSE, called |-> FALSE]

\* ------------------------------------------------------ request records
ZeroDec == [p \in ProductIds |-> 0]

\* No order fetched.
NoOrder ==
  [customerId |-> Null, vendorId |-> Null, isService |-> FALSE, status |-> Null,
   totalOrderValue |-> 0, details |-> <<>>, rid |-> 0]

\* No invoice fetched.
NoInvoice ==
  [orderId |-> 0, invoiceNumber |-> <<>>, taxAmount |-> 0, grandTotal |-> 0,
   deliveryStatus |-> Null, isPaid |-> FALSE, rid |-> 0]

\* No settlement computed.
NoResult ==
  [grandTotal |-> 0, totalPaid |-> 0, totalDeposit |-> 0, totalLateFee |-> 0,
   finalPayment |-> 0]

\* A handler that serves nothing.
NoReq ==
  [op |-> "idle", pc |-> "idle", rid |-> 0, customerId |-> Null, vendorId |-> Null,
   orderId |-> 0, status |-> Null, cartItems |-> <<>>, i |-> 0, groups |-> <<>>,
   g |-> 0, order |-> NoOrder, createdOrders |-> <<>>, totalStock |-> 0,
   error |-> Null, dec |-> ZeroDec, cleared |-> FALSE,
   invoiceId |-> 0, invoice |-> NoInvoice, result |-> NoResult]

Finished == {"idle", "done", "failed"}

\* A handler takes the next request when it is free; the second handler is used
\* only while the first is busy (which handler serves a request is immaterial).
CanStart(r) ==
  /\ nreq < MaxRequests
  /\ req[r].pc \in Finished
  /\ r = "r2" => req["r1"].pc \notin Finished

\* The request ends; loop variables are dropped.
Finish(rec, outcome) ==
  [rec EXCEPT !.pc = outcome, !.i = 0, !.g = 0, !.groups = <<>>, !.totalStock = 0]

\* throw new Error(...): the catch block logs and rethrows.
Throw(rec, error) == [Finish(rec, "failed") EXCEPT !.error = error]

\* ------------------------------------------------------------ upsertCart
\* The guards of cartService.upsertCart up to the write.
upsertAccepts(productId, quantity, startDate, endDate, isService) ==
  IF isService
  THEN /\ startDate # NoDate /\ endDate # NoDate
       /\ startDate < endDate
       /\ checkStockAvailability(stock, movements, productId, startDate, endDate, quantity)
  ELSE ~(totalOrZero(stock[productId]) < quantity)

\* cartService.upsertCart: one line per (userId, productId), replaced on update.
\* A rejected request throws before the write and changes nothing.
upsertCart(userId, productId, quantity, startDate, endDate, isService) ==
  /\ nreq < MaxRequests
  /\ upsertAccepts(productId, quantity, startDate, endDate, isService)
  /\ nreq' = nreq + 1
  /\ cart' = [cart EXCEPT ![userId] =
                (productId :>
                   [quantity |-> quantity,
                    startDate |-> IF isService THEN startDate ELSE NoDate,
                    endDate |-> IF isService THEN endDate ELSE NoDate,
                    isService |-> isService]) @@ @]
  /\ UNCHANGED <<invoices, paymentLedgers, avail, stock, movements, orders, now, req>>

\* --------------------------------------------------- createOrdersFromCart
\* db.cart.findMany({where: {userId}, include: {product: {include: {stock}}}})
cartItemsOf(userId) ==
  LET n == Len(ProductSeq)
      present == {k \in 1..n : ProductSeq[k] \in DOMAIN cart[userId]}
      row(k) == IF k \notin present THEN Null
                ELSE LET line == cart[userId][ProductSeq[k]]
                     IN [productId |-> ProductSeq[k], quantity |-> line.quantity,
                         startDate |-> line.startDate, endDate |-> line.endDate,
                         isService |-> line.isService, stock |-> stock[ProductSeq[k]]]
  IN SelectSeqBy([k \in 1..n |-> row(k)], present)

\* `${vendorId}-${item.isService}`
groupKeyVendorOnly(item) == <<vendorId[item.productId]>>
groupKey(item) == <<vendorId[item.productId], item.isService>>

RECURSIVE groupItems(_, _)
\* The Map built by the grouping loop, in insertion order.
groupItems(items, groups) ==
  IF items = <<>> THEN groups
  ELSE LET item == Head(items)
           hit == {k \in 1..Len(groups) : groups[k].key = groupKey(item)}
       IN IF hit = {}
          THEN groupItems(Tail(items),
                 Append(groups, [key |-> groupKey(item),
                                 vendorId |-> vendorId[item.productId],
                                 isService |-> item.isService,
                                 items |-> <<item>>]))
          ELSE LET k == CHOOSE k \in hit : TRUE
               IN groupItems(Tail(items),
                    [groups EXCEPT ![k].items = Append(@, item)])

\* Math.abs(x)
Abs(x) == IF x < 0 THEN 0 - x ELSE x
\* Math.ceil(x / (1000 * 60 * 60 * 24)) for x >= 0
floorDays(x) == x \div DayLen
ceilDays(x) == (x + DayLen - 1) \div DayLen

\* rentalDays of a rental line: at least one day.
rentalDays(startDate, endDate) ==
  LET days == ceilDays(Abs(endDate - startDate))
  IN IF days < 1 THEN 1 ELSE days

\* subtotal of a line: unitPrice * quantity, times rentalDays for a rental.
subtotal(item, isService) ==
  IF isService
  THEN dailyPrice[item.productId] * item.quantity * rentalDays(item.startDate, item.endDate)
  ELSE dailyPrice[item.productId] * item.quantity

\* orderDetailsData of one group.
orderDetailsData(group) ==
  [k \in 1..Len(group.items) |->
     [productId |-> group.items[k].productId,
      quantity |-> group.items[k].quantity,
      unitPrice |-> dailyPrice[group.items[k].productId],
      subtotal |-> subtotal(group.items[k], group.isService),
      totalDepositAmount |-> securityDeposit[group.items[k].productId]
                               * group.items[k].quantity,
      start_date |-> IF group.isService THEN group.items[k].startDate ELSE NoDate,
      end_date |-> IF group.isService THEN group.items[k].endDate ELSE NoDate]]

\* The subtotals with the deposits on top.
totalOrderValueWithDeposits(group) ==
  SumSeq([k \in 1..Len(group.items) |->
            subtotal(group.items[k], group.isService)
              + securityDeposit[group.items[k].productId] * group.items[k].quantity])
\* totalOrderValue of one group: the sum of the subtotals.
totalOrderValue(group) ==
  SumSeq([k \in 1..Len(group.items) |-> subtotal(group.items[k], group.isService)])

\* const initialStatus = !isService ? APPROVED : DRAFT
initialStatusApproved(isService) == "APPROVED"
initialStatus(isService) == IF ~isService THEN "APPROVED" ELSE "DRAFT"

\* A stock_transactions row.
movement(productId, orderId, moveType, quantity, startDate, endDate, rid) ==
  [productId |-> productId, orderId |-> orderId, moveType |-> moveType,
   quantity |-> quantity, startDate |-> startDate, endDate |-> endDate,
   deletedAt |-> Null, rid |-> rid]

\* After the availability loop passed item i: the next item, or grouping.
afterCheckFirstOnly(rec) ==
  [rec EXCEPT !.pc = "create", !.i = 0, !.totalStock = 0, !.g = 1,
              !.groups = groupItems(rec.cartItems, <<>>)]
afterCheck(rec) ==
  IF rec.i < Len(rec.cartItems)
  THEN [rec EXCEPT !.pc = "check", !.i = rec.i + 1, !.totalStock = 0]
  ELSE [rec EXCEPT !.pc = "create", !.i = 0, !.totalStock = 0, !.g = 1,
                   !.groups = groupItems(rec.cartItems, <<>>)]

\* After group g is complete: createdOrders.push(order), next group or clear.
afterGroup(rec) ==
  LET pushed == [rec EXCEPT !.createdOrders = Append(@, rec.orderId)]
  IN IF rec.g < Len(rec.groups)
     THEN [pushed EXCEPT !.pc = "create", !.g = rec.g + 1, !.i = 0]
     ELSE [pushed EXCEPT !.pc = "clear", !.i = 0]

\* The request arrives and db.cart.findMany runs.
coFetch(r, customerId) ==
  /\ CanStart(r)
  /\ nreq' = nreq + 1
  /\ LET items == cartItemsOf(customerId)
         rec == [NoReq EXCEPT !.op = "checkout", !.rid = nreq + 1,
                              !.customerId = customerId, !.cartItems = items]
     IN req' = [req EXCEPT ![r] =
                  IF Len(items) = 0 THEN Throw(rec, "EmptyCart")
                  ELSE [rec EXCEPT !.pc = "check", !.i = 1]]
  /\ UNCHANGED <<invoices, paymentLedgers, avail, stock, movements, orders, cart, now>>

\* Availability loop, item i: a rental line starts checkStockAvailability with
\* db.stock.findUnique; a purchase line is compared with the fetched stock.
coCheck(r) ==
  /\ req[r].op = "checkout" /\ req[r].pc = "check"
  /\ LET rec == req[r]
         item == rec.cartItems[rec.i]
     IN req' = [req EXCEPT ![r] =
          IF item.isService
          THEN IF item.startDate = NoDate \/ item.endDate = NoDate
               THEN Throw(rec, "MissingDates")
               ELSE [rec EXCEPT !.pc = "chk_tx",
                                !.totalStock = totalOrZero(stock[item.productId])]
          ELSE IF totalOrZero(item.stock) < item.quantity
               THEN Throw(rec, "InsufficientStock")
               ELSE afterCheck(rec)]
  /\ UNCHANGED <<invoices, paymentLedgers, avail, stock, movements, orders, cart, now, nreq>>

\* checkStockAvailability, second read: db.stockTransaction.findMany and the math.
coCheckTx(r) ==
  /\ req[r].op = "checkout" /\ req[r].pc = "chk_tx"
  /\ LET rec == req[r]
         item == rec.cartItems[rec.i]
     IN req' = [req EXCEPT ![r] =
          IF isAvailable(rec.totalStock, movements, item.productId,
                         item.startDate, item.endDate, item.quantity)
          THEN afterCheck(rec)
          ELSE Throw(rec, "InsufficientStock")]
  /\ UNCHANGED <<invoices, paymentLedgers, avail, stock, movements, orders, cart, now, nreq>>

\* db.salesOrder.create for group g, with its details.
coCreateClearsCart(r) ==
  /\ req[r].op = "checkout" /\ req[r].pc = "create"
  /\ LET rec == req[r]
         group == rec.groups[rec.g]
         order == [customerId |-> rec.customerId, vendorId |-> group.vendorId,
                   isService |-> group.isService,
                   status |-> initialStatus(group.isService),
                   totalOrderValue |-> totalOrderValue(group),
                   details |-> orderDetailsData(group), rid |-> rec.rid]
         made == [rec EXCEPT !.orderId = Len(orders) + 1]
     IN /\ orders' = Append(orders, order)
        /\ cart' = [cart EXCEPT ![rec.customerId] = <<>>]
        /\ req' = [req EXCEPT ![r] =
             IF ~group.isService THEN [made EXCEPT !.pc = "dec", !.i = 1]
             ELSE afterGroup(made)]
  /\ UNCHANGED <<invoices, paymentLedgers, avail, stock, movements, now, nreq>>
coCreate(r) ==
  /\ req[r].op = "checkout" /\ req[r].pc = "create"
  /\ LET rec == req[r]
         group == rec.groups[rec.g]
         missingDates == group.isService /\
            \E k \in 1..Len(group.items) :
               group.items[k].startDate = NoDate \/ group.items[k].endDate = NoDate
         order == [customerId |-> rec.customerId, vendorId |-> group.vendorId,
                   isService |-> group.isService,
                   status |-> initialStatus(group.isService),
                   totalOrderValue |-> totalOrderValue(group),
                   details |-> orderDetailsData(group), rid |-> rec.rid]
         made == [rec EXCEPT !.orderId = Len(orders) + 1]
     IN IF missingDates
        THEN /\ req' = [req EXCEPT ![r] = Throw(rec, "MissingDates")]
             /\ UNCHANGED orders
        ELSE /\ orders' = Append(orders, order)
             /\ req' = [req EXCEPT ![r] =
                  IF initialStatus(group.isService) = "APPROVED" /\ ~group.isService
                  THEN [made EXCEPT !.pc = "dec", !.i = 1]
                  ELSE afterGroup(made)]
  /\ UNCHANGED <<invoices, paymentLedgers, avail, stock, movements, cart, now, nreq>>

\* db.stock.update({totalPhysicalQuantity: {decrement}}) for item i of group g;
\* Prisma throws when the product has no stock row.
coDec(r) ==
  /\ req[r].op = "checkout" /\ req[r].pc = "dec"
  /\ LET rec == req[r]
         item == rec.groups[rec.g].items[rec.i]
         p == item.productId
     IN IF ~stock[p].row
        THEN /\ req' = [req EXCEPT ![r] = Throw(rec, "RecordNotFound")]
             /\ UNCHANGED stock
        ELSE /\ stock' = [stock EXCEPT ![p].totalPhysicalQuantity = @ - item.quantity]
             /\ req' = [req EXCEPT ![r] =
                  [rec EXCEPT !.pc = "log", !.dec[p] = @ + item.quantity]]
  /\ UNCHANGED <<invoices, paymentLedgers, avail, movements, orders, cart, now, nreq>>

\* db.stockTransaction.create({moveType: 'SALE', startDate: now, endDate: now})
coLogUnreferenced(r) ==
  /\ req[r].op = "checkout" /\ req[r].pc = "log"
  /\ LET rec == req[r]
         group == rec.groups[rec.g]
         item == group.items[rec.i]
     IN /\ movements' = Append(movements,
             movement(item.productId, 0, "SALE", item.quantity, now, now, rec.rid))
        /\ req' = [req EXCEPT ![r] =
             IF rec.i < Len(group.items)
             THEN [rec EXCEPT !.pc = "dec", !.i = rec.i + 1]
             ELSE afterGroup(rec)]
  /\ UNCHANGED <<invoices, paymentLedgers, avail, stock, orders, cart, now, nreq>>
coLog(r) ==
  /\ req[r].op = "checkout" /\ req[r].pc = "log"
  /\ LET rec == req[r]
         group == rec.groups[rec.g]
         item == group.items[rec.i]
     IN /\ movements' = Append(movements,
             movement(item.productId, rec.orderId, "SALE", item.quantity,
                      now, now, rec.rid))
        /\ req' = [req EXCEPT ![r] =
             IF rec.i < Len(group.items)
             THEN [rec EXCEPT !.pc = "dec", !.i = rec.i + 1]
             ELSE afterGroup(rec)]
  /\ UNCHANGED <<invoices, paymentLedgers, avail, stock, orders, cart, now, nreq>>

\* db.cart.deleteMany({where: {userId}}) and the return.
coClear(r) ==
  /\ req[r].op = "checkout" /\ req[r].pc = "clear"
  /\ cart' = [cart EXCEPT ![req[r].customerId] = <<>>]
  /\ req' = [req EXCEPT ![r] = Finish([req[r] EXCEPT !.cleared = TRUE], "done")]
  /\ UNCHANGED <<invoices, paymentLedgers, avail, stock, movements, orders, now, nreq>>

\* The awaited calls of createOrdersFromCart after the cart is fetched.
coSteps(r) ==
  \/ coCheck(r)
  \/ coCheckTx(r)
  \/ coCreate(r)
  \/ coDec(r)
  \/ coLog(r)
  \/ coClear(r)

\* salesOrderService.createOrdersFromCart, one awaited call at a time.
createOrdersFromCart(r, customers) ==
  \/ \E c \in customers : coFetch(r, c)
  \/ coSteps(r)

\* ------------------------------------------------------ updateOrderStatus
\* status === APPROVED && order.status !== APPROVED
reservesStockAlways(status, order) == status = "APPROVED"
reservesStock(status, order) == status = "APPROVED" /\ order.status # "APPROVED"

\* After detail i of a loop over order.details: the next detail at pc again,
\* or the following phase.
afterDetail(rec, again, next) ==
  IF rec.i < Len(rec.order.details)
  THEN [rec EXCEPT !.pc = again, !.i = rec.i + 1, !.totalStock = 0]
  ELSE [rec EXCEPT !.pc = next, !.i = 1, !.totalStock = 0]

\* The request arrives and db.salesOrder.findUnique({include: {details}}) runs;
\* then the ownership check and the choice of branch.
usFetchAnyCaller(r, vendor, orderId, status) ==
  /\ CanStart(r)
  /\ nreq' = nreq + 1
  /\ LET rec == [NoReq EXCEPT !.op = "status", !.rid = nreq + 1, !.vendorId = vendor,
                              !.orderId = orderId, !.status = status]
     IN req' = [req EXCEPT ![r] =
          IF orderId \notin 1..Len(orders) THEN Throw(rec, "OrderNotFound")
          ELSE LET order == orders[orderId]
                   got == [rec EXCEPT !.order = order, !.i = 1]
               IN IF status = "APPROVED" /\ order.status # "APPROVED"
                  THEN IF order.isService
                       THEN [got EXCEPT !.pc = "a_stock"]
                       ELSE [got EXCEPT !.pc = "p_read"]
                  ELSE [got EXCEPT !.pc = "set", !.i = 0]]
  /\ UNCHANGED <<invoices, paymentLedgers, avail, stock, movements, orders, cart, now>>
usFetch(r, vendor, orderId, status) ==
  /\ CanStart(r)
  /\ nreq' = nreq + 1
  /\ LET rec == [NoReq EXCEPT !.op = "status", !.rid = nreq + 1, !.vendorId = vendor,
                              !.orderId = orderId, !.status = status]
     IN req' = [req EXCEPT ![r] =
          IF orderId \notin 1..Len(orders) THEN Throw(rec, "OrderNotFound")
          ELSE LET order == orders[orderId]
                   got == [rec EXCEPT !.order = order, !.i = 1]
               IN IF order.vendorId # vendor THEN Throw(rec, "Unauthorized")
                  ELSE IF reservesStock(status, order)
                       THEN IF order.isService
                            THEN [got EXCEPT !.pc = "a_stock"]
                            ELSE [got EXCEPT !.pc = "p_read"]
                       ELSE [got EXCEPT !.pc = "set", !.i = 0]]
  /\ UNCHANGED <<invoices, paymentLedgers, avail, stock, movements, orders, cart, now>>

\* Rental, detail i: checkStockAvailability, first read (db.stock.findUnique).
usRentalStock(r) ==
  /\ req[r].op = "status" /\ req[r].pc = "a_stock"
  /\ LET rec == req[r]
         detail == rec.order.details[rec.i]
     IN req' = [req EXCEPT ![r] =
          IF detail.start_date = NoDate \/ detail.end_date = NoDate
          THEN Throw(rec, "MissingDates")
          ELSE [rec EXCEPT !.pc = "a_tx",
                           !.totalStock = totalOrZero(stock[detail.productId])]]
  /\ UNCHANGED <<invoices, paymentLedgers, avail, stock, movements, orders, cart, now, nreq>>

\* Rental, detail i: second read (db.stockTransaction.findMany) and the math.
usRentalTxReserving(r) ==
  /\ req[r].op = "status" /\ req[r].pc = "a_tx"
  /\ LET rec == req[r]
         detail == rec.order.details[rec.i]
         passes == isAvailable(rec.totalStock, movements, detail.productId,
                               detail.start_date, detail.end_date, detail.quantity)
     IN /\ movements' = IF passes
                        THEN Append(movements,
                               movement(detail.productId, rec.orderId, "RENTAL",
                                        detail.quantity, detail.start_date,
                                        detail.end_date, rec.rid))
                        ELSE movements
        /\ req' = [req EXCEPT ![r] =
             IF passes THEN afterDetail(rec, "a_stock", "set")
             ELSE Throw(rec, "InsufficientStock")]
  /\ UNCHANGED <<invoices, paymentLedgers, avail, stock, orders, cart, now, nreq>>
usRentalTx(r) ==
  /\ req[r].op = "status" /\ req[r].pc = "a_tx"
  /\ LET rec == req[r]
         detail == rec.order.details[rec.i]
     IN req' = [req EXCEPT ![r] =
          IF isAvailable(rec.totalStock, movements, detail.productId,
                         detail.start_date, detail.end_date, detail.quantity)
          THEN afterDetail(rec, "a_stock", "a_res")
          ELSE Throw(rec, "InsufficientStock")]
  /\ UNCHANGED <<invoices, paymentLedgers, avail, stock, movements, orders, cart, now, nreq>>

\* Rental, detail i: db.stockTransaction.create({moveType: 'RENTAL'}).
usRentalReserveFirstOnly(r) ==
  /\ req[r].op = "status" /\ req[r].pc = "a_res"
  /\ LET rec == req[r]
         detail == rec.order.details[rec.i]
     IN /\ movements' = Append(movements,
             movement(detail.productId, rec.orderId, "RENTAL", detail.quantity,
                      detail.start_date, detail.end_date, rec.rid))
        /\ req' = [req EXCEPT ![r] = [rec EXCEPT !.pc = "set", !.i = 1, !.totalStock = 0]]
  /\ UNCHANGED <<invoices, paymentLedgers, avail, stock, orders, cart, now, nreq>>
usRentalReserve(r) ==
  /\ req[r].op = "status" /\ req[r].pc = "a_res"
  /\ LET rec == req[r]
         detail == rec.order.details[rec.i]
     IN /\ movements' = Append(movements,
             movement(detail.productId, rec.orderId, "RENTAL", detail.quantity,
                      detail.start_date, detail.end_date, rec.rid))
        /\ req' = [req EXCEPT ![r] = afterDetail(rec, "a_res", "set")]
  /\ UNCHANGED <<invoices, paymentLedgers, avail, stock, orders, cart, now, nreq>>

\* Purchase, detail i: db.stock.findUnique and the quantity check.
usPurchaseRead(r) ==
  /\ req[r].op = "status" /\ req[r].pc = "p_read"
  /\ LET rec == req[r]
         detail == rec.order.details[rec.i]
         row == stock[detail.productId]
     IN req' = [req EXCEPT ![r] =
          IF ~row.row \/ row.totalPhysicalQuantity < detail.quantity
          THEN Throw(rec, "InsufficientStock")
          ELSE [rec EXCEPT !.pc = "p_dec"]]
  /\ UNCHANGED <<invoices, paymentLedgers, avail, stock, movements, orders, cart, now, nreq>>

\* Purchase, detail i: db.stock.update({totalPhysicalQuantity: {decrement}}).
usPurchaseDec(r) ==
  /\ req[r].op = "status" /\ req[r].pc = "p_dec"
  /\ LET rec == req[r]
         detail == rec.order.details[rec.i]
         p == detail.productId
     IN IF ~stock[p].row
        THEN /\ req' = [req EXCEPT ![r] = Throw(rec, "RecordNotFound")]
             /\ UNCHANGED stock
        ELSE /\ stock' = [stock EXCEPT ![p].totalPhysicalQuantity = @ - detail.quantity]
             /\ req' = [req EXCEPT ![r] =
                  [rec EXCEPT !.pc = "p_log", !.dec[p] = @ + detail.quantity]]
  /\ UNCHANGED <<invoices, paymentLedgers, avail, movements, orders, cart, now, nreq>>

\* The decrement without its ledger row.
usPurchaseLogNone(r) ==
  /\ req[r].op = "status" /\ req[r].pc = "p_log"
  /\ req' = [req EXCEPT ![r] = afterDetail(req[r], "p_read", "set")]
  /\ UNCHANGED <<invoices, paymentLedgers, avail, stock, movements, orders, cart, now, nreq>>
\* Purchase, detail i: db.stockTransaction.create({moveType: 'SALE'}).
usPurchaseLog(r) ==
  /\ req[r].op = "status" /\ req[r].pc = "p_log"
  /\ LET rec == req[r]
         detail == rec.order.details[rec.i]
     IN /\ movements' = Append(movements,
             movement(detail.productId, rec.orderId, "SALE", detail.quantity,
                      now, now, rec.rid))
        /\ req' = [req EXCEPT ![r] = afterDetail(rec, "p_read", "set")]
  /\ UNCHANGED <<invoices, paymentLedgers, avail, stock, orders, cart, now, nreq>>

\* db.salesOrder.update({data: {status}}) and the return.
usSet(r) ==
  /\ req[r].op = "status" /\ req[r].pc = "set"
  /\ orders' = [orders EXCEPT ![req[r].orderId].status = req[r].status]
  /\ req' = [req EXCEPT ![r] = Finish(req[r], "done")]
  /\ UNCHANGED <<invoices, paymentLedgers, avail, stock, movements, cart, now, nreq>>

\* The awaited calls of updateOrderStatus after the order is fetched.
usSteps(r) ==
  \/ usRentalStock(r)
  \/ usRentalTx(r)
  \/ usRentalReserve(r)
  \/ usPurchaseRead(r)
  \/ usPurchaseDec(r)
  \/ usPurchaseLog(r)
  \/ usSet(r)

\* salesOrderService.updateOrderStatus, one awaited call at a time.
updateOrderStatus(r, statuses) ==
  \/ \E v \in Vendors, o \in 1..Len(orders), s \in statuses : usFetch(r, v, o, s)
  \/ usSteps(r)

\* ---------------------------------------------------- salesInvoiceService
\* taxRate of a detail line.  One version of the service has const taxRate = 18;
\* the other reads productAny.taxPercentage || 18, which keeps a taxPercentage
\* of 0 when the client returns the column as a Decimal object and replaces it
\* by 18 when it returns a number.
TaxBuilds == {"const", "number", "decimal"}
taxRate(productId, build) ==
  IF build = "const" THEN 18
  ELSE IF build = "number" /\ taxPercentage[productId] = 0 THEN 18
  ELSE taxPercentage[productId]

\* totalTaxAmount: the sum of detail.subtotal.mul(taxRate).div(100).
totalTaxAmount(order, build) ==
  SumSeq([k \in 1..Len(order.details) |->
            (order.details[k].subtotal * taxRate(order.details[k].productId, build))
               \div 100])

\* `INV-${dateStr}-${randomStr}`
invoiceNumber(today, randomStr) == <<today \div DayLen, randomStr>>

\* The request arrives and db.salesOrder.findUnique runs; then the ownership
\* check, the invoice number and the sums.
ciFetch(r, vendor, orderId, build, randomStr) ==
  /\ CanStart(r)
  /\ nreq' = nreq + 1
  /\ LET rec == [NoReq EXCEPT !.op = "invoice", !.rid = nreq + 1, !.vendorId = vendor,
                              !.orderId = orderId]
     IN req' = [req EXCEPT ![r] =
          IF orderId \notin 1..Len(orders) THEN Throw(rec, "OrderNotFound")
          ELSE LET order == orders[orderId]
                   tax == totalTaxAmount(order, build)
               IN IF order.vendorId # vendor THEN Throw(rec, "Unauthorized")
                  ELSE [rec EXCEPT !.pc = "i_create", !.order = order,
                          !.invoice = [orderId |-> orderId,
                                       invoiceNumber |-> invoiceNumber(now, randomStr),
                                       taxAmount |-> tax,
                                       grandTotal |-> order.totalOrderValue + tax,
                                       deliveryStatus |-> "PROCESSING",
                                       isPaid |-> FALSE,
                                       rid |-> nreq + 1]]]
  /\ UNCHANGED <<invoices, paymentLedgers, avail, stock, movements, orders, cart, now>>

\* db.salesInvoice.create; the unique index on invoice_number rejects a number
\* that is taken.
ciCreate(r) ==
  /\ req[r].op = "invoice" /\ req[r].pc = "i_create"
  /\ LET rec == req[r]
         taken == \E k \in 1..Len(invoices) :
                     invoices[k].invoiceNumber = rec.invoice.invoiceNumber
     IN IF taken
        THEN /\ req' = [req EXCEPT ![r] = Throw(rec, "UniqueConstraint")]
             /\ UNCHANGED invoices
        ELSE /\ invoices' = Append(invoices, rec.invoice)
             /\ req' = [req EXCEPT ![r] =
                  Finish([rec EXCEPT !.invoiceId = Len(invoices) + 1], "done")]
  /\ UNCHANGED <<paymentLedgers, avail, stock, movements, orders, cart, now, nreq>>

\* salesInvoiceService.createInvoice, one awaited call at a time.
createInvoice(r, vendors, suffixes) ==
  \/ \E v \in vendors, o \in 1..Len(orders), build \in TaxBuilds, x \in suffixes :
        ciFetch(r, v, o, build, x)
  \/ ciCreate(r)

\* isValidTransition of updateInvoiceStatus.
isValidTransitionForward(currentStatus, status) ==
  \/ currentStatus = "PROCESSING" /\ status \in {"DISPATCHED", "DELIVERED"}
  \/ currentStatus = "DISPATCHED" /\ status = "DELIVERED"
isValidTransition(currentStatus, status) ==
  \/ currentStatus = "PROCESSING" /\ status = "DISPATCHED"
  \/ currentStatus = "DISPATCHED" /\ status = "DELIVERED"

\* The request arrives and db.salesInvoice.findUnique({include: {order}}) runs;
\* then the ownership check and the transition check.
uiFetch(r, vendor, invoiceId, status) ==
  /\ CanStart(r)
  /\ nreq' = nreq + 1
  /\ LET rec == [NoReq EXCEPT !.op = "invoiceStatus", !.rid = nreq + 1,
                              !.vendorId = vendor, !.invoiceId = invoiceId,
                              !.status = status]
     IN req' = [req EXCEPT ![r] =
          IF invoiceId \notin 1..Len(invoices) THEN Throw(rec, "InvoiceNotFound")
          ELSE LET invoice == invoices[invoiceId]
                   got == [rec EXCEPT !.invoice = invoice, !.orderId = invoice.orderId]
               IN IF orders[invoice.orderId].vendorId # vendor
                  THEN Throw(got, "Unauthorized")
                  ELSE IF ~isValidTransition(invoice.deliveryStatus, status)
                       THEN Throw(got, "InvalidTransition")
                       ELSE [got EXCEPT !.pc = "i_update"]]
  /\ UNCHANGED <<invoices, paymentLedgers, avail, stock, movements, orders, cart, now>>

\* db.salesInvoice.update({data: {deliveryStatus: status}}) and the return.
uiUpdate(r) ==
  /\ req[r].op = "invoiceStatus" /\ req[r].pc = "i_update"
  /\ invoices' = [invoices EXCEPT ![req[r].invoiceId].deliveryStatus = req[r].status]
  /\ req' = [req EXCEPT ![r] = Finish(req[r], "done")]
  /\ UNCHANGED <<paymentLedgers, avail, stock, movements, orders, cart, now, nreq>>

\* salesInvoiceService.updateInvoiceStatus, one awaited call at a time.
updateInvoiceStatus(r, vendors, statuses) ==
  \/ \E v \in vendors, i \in 1..Len(invoices), s \in statuses : uiFetch(r, v, i, s)
  \/ uiUpdate(r)

\* --------------------------------------------------------- calculateReturn
\* Late fee of a detail: unitPrice * quantity * days late, for a detail whose
\* end date has passed.
lateFee(detail, today) ==
  IF detail.end_date # NoDate /\ today > detail.end_date
  THEN detail.unitPrice * detail.quantity * ceilDays(Abs(today - detail.end_date))
  ELSE 0

\* The sums of calculateReturn over the fetched order, its invoices and its
\* payment-ledger entries.
settlement(order, orderInvoices, orderLedgers, today) ==
  LET grandTotal == SumSeq([k \in 1..Len(orderInvoices) |-> orderInvoices[k].grandTotal])
      totalPaid == SumSeq([k \in 1..Len(orderLedgers) |-> orderLedgers[k].amountPaid])
      totalDeposit == SumSeq([k \in 1..Len(order.details) |->
                                order.details[k].totalDepositAmount])
      totalLateFee == SumSeq([k \in 1..Len(order.details) |->
                                lateFee(order.details[k], today)])
  IN [grandTotal |-> grandTotal, totalPaid |-> totalPaid,
      totalDeposit |-> totalDeposit, totalLateFee |-> totalLateFee,
      finalPayment |-> totalDeposit + totalPaid - grandTotal - totalLateFee]

\* include: {invoices: true}
invoicesOf(orderId) ==
  SelectSeqBy(invoices, {k \in 1..Len(invoices) : invoices[k].orderId = orderId})
\* include: {paymentLedgers: true}
paymentLedgersOf(orderId) ==
  SelectSeqBy(paymentLedgers,
              {k \in 1..Len(paymentLedgers) : paymentLedgers[k].orderId = orderId})

\* The request arrives and db.salesOrder.findUnique runs with the invoices, the
\* payment ledgers and the details; then the sums, with today = new Date().
crFetch(r, vendor, orderId) ==
  /\ CanStart(r)
  /\ nreq' = nreq + 1
  /\ LET rec == [NoReq EXCEPT !.op = "return", !.rid = nreq + 1, !.vendorId = vendor,
                              !.orderId = orderId]
     IN req' = [req EXCEPT ![r] =
          IF orderId \notin 1..Len(orders) THEN Throw(rec, "OrderNotFound")
          ELSE [rec EXCEPT !.pc = "r_update", !.order = orders[orderId],
                           !.result = settlement(orders[orderId], invoicesOf(orderId),
                                                 paymentLedgersOf(orderId), now)]]
  /\ UNCHANGED <<invoices, paymentLedgers, avail, stock, movements, orders, cart, now>>

\* updateMany over every row of sales_invoice.
crUpdateEveryOrder(r) ==
  /\ req[r].op = "return" /\ req[r].pc = "r_update"
  /\ invoices' = [k \in 1..Len(invoices) |->
                    [invoices[k] EXCEPT !.deliveryStatus = "COMPLETED"]]
  /\ req' = [req EXCEPT ![r] = Finish(req[r], "done")]
  /\ UNCHANGED <<paymentLedgers, avail, stock, movements, orders, cart, now, nreq>>
\* db.salesInvoice.updateMany({where: {orderId}, data: {deliveryStatus: COMPLETED}})
\* and the return.
crUpdate(r) ==
  /\ req[r].op = "return" /\ req[r].pc = "r_update"
  /\ invoices' = [k \in 1..Len(invoices) |->
                    IF invoices[k].orderId = req[r].orderId
                    THEN [invoices[k] EXCEPT !.deliveryStatus = "COMPLETED"]
                    ELSE invoices[k]]
  /\ req' = [req EXCEPT ![r] = Finish(req[r], "done")]
  /\ UNCHANGED <<paymentLedgers, avail, stock, movements, orders, cart, now, nreq>>

\* salesOrderService.calculateReturn, one awaited call at a time, for the id of
\* an order or an id no order has.
calculateReturn(r, vendors) ==
  \/ \E v \in vendors, o \in 1..(Len(orders) + 1) : crFetch(r, v, o)
  \/ crUpdate(r)

\* ------------------------------------------------------------------ routes
\* authMiddleware, then roleMiddleware(...allowedRoles): the status of the
\* refusal, or Null when the request reaches the controller.
refusal(caller, allowedRoles) ==
  IF caller = NoToken THEN "401"
  ELSE IF role[caller] \notin allowedRoles THEN "403"
  ELSE Null

\* req.user.id of the request a handler serves.
callerOf(rec) == IF rec.op = "checkout" THEN rec.customerId ELSE rec.vendorId

\* The middleware answers 401 or 403 and the controller is not called.
refused(r, op, caller, allowedRoles) ==
  /\ CanStart(r)
  /\ refusal(caller, allowedRoles) # Null
  /\ nreq' = nreq + 1
  /\ LET rec == [NoReq EXCEPT !.op = op, !.rid = nreq + 1]
         who == IF op = "checkout" THEN [rec EXCEPT !.customerId = caller]
                ELSE [rec EXCEPT !.vendorId = caller]
     IN req' = [req EXCEPT ![r] = Throw(who, refusal(caller, allowedRoles))]
  /\ UNCHANGED <<invoices, paymentLedgers, avail, stock, movements, orders, cart, now>>

\* Roles each route lets through.
allowedRoles(op) ==
  IF op = "checkout" THEN {"CUSTOMER"}
  ELSE IF op = "status" THEN {"VENDOR", "CUSTOMER"}
  ELSE {"VENDOR"}

\* router.post('/', authMiddleware, roleMiddleware('CUSTOMER'), createOrder)
postOrder(r, callers) ==
  \/ \E c \in callers : refused(r, "checkout", c, allowedRoles("checkout"))
  \/ \E c \in callers : refusal(c, allowedRoles("checkout")) = Null /\ coFetch(r, c)
  \/ coSteps(r)

\* router.patch('/:orderId/status', authMiddleware,
\*              roleMiddleware('VENDOR', 'CUSTOMER'), updateOrderStatus)
patchOrderStatus(r, callers, statuses) ==
  \/ \E c \in callers : refused(r, "status", c, allowedRoles("status"))
  \/ \E c \in callers, o \in 1..(Len(orders) + 1), s \in statuses :
        refusal(c, allowedRoles("status")) = Null /\ usFetch(r, c, o, s)
  \/ usSteps(r)

\* router.post('/invoice', authMiddleware, roleMiddleware('VENDOR'), createInvoice)
postInvoice(r, callers, suffixes) ==
  \/ \E c \in callers : refused(r, "invoice", c, allowedRoles("invoice"))
  \/ \E c \in callers, o \in 1..(Len(orders) + 1), build \in TaxBuilds, x \in suffixes :
        refusal(c, allowedRoles("invoice")) = Null /\ ciFetch(r, c, o, build, x)
  \/ ciCreate(r)

\* router.patch('/invoice/:invoiceId/status', authMiddleware,
\*              roleMiddleware('VENDOR'), updateInvoiceStatus)
patchInvoiceStatus(r, callers, statuses) ==
  \/ \E c \in callers : refused(r, "invoiceStatus", c, allowedRoles("invoiceStatus"))
  \/ \E c \in callers, i \in 1..(Len(invoices) + 1), s \in statuses :
        refusal(c, allowedRoles("invoiceStatus")) = Null /\ uiFetch(r, c, i, s)
  \/ uiUpdate(r)

\* ------------------------------------------------------------------ system
\* Time passes.
Tick ==
  /\ now < MaxTime
  /\ now' = now + 1
  /\ UNCHANGED <<invoices, paymentLedgers, avail, stock, movements, orders, cart, req, nreq>>

\* POST /cart: a rental line with a window, or a purchase line.
addToCart(customers, products, quantities, windows) ==
  \E c \in customers, p \in products, q \in quantities :
     \/ \E w \in windows : upsertCart(c, p, q, w.startDate, w.endDate, TRUE)
     \/ upsertCart(c, p, q, NoDate, NoDate, FALSE)

InitWith(rows) ==
  /\ avail = NoCall
  /\ stock = rows
  /\ movements = <<>>
  /\ orders = <<>>
  /\ cart = [c \in Customers |-> <<>>]
  /\ now = 0
  /\ req = [r \in Procs |-> NoReq]
  /\ nreq = 0
  /\ invoices = <<>>
  /\ paymentLedgers = <<>>

\* Two customers and the product with one unit, served by two concurrent
\* handlers; the vendor approves and withdraws approval.
Next ==
  \/ addToCart(Customers, {"p2"}, {1}, Windows)
  \/ \E r \in Procs : createOrdersFromCart(r, Customers)
  \/ \E r \in Procs : updateOrderStatus(r, StatusInputs)
  \/ Tick

Init == InitWith(InitStock)

Spec == Init /\ [][Next]_vars

\* One customer and the whole catalogue, one request at a time; the vendor
\* approves and withdraws approval.
NextCatalogue ==
  \/ addToCart({"c1"}, ProductIds, {0, 1}, {[startDate |-> 0, endDate |-> 2]})
  \/ createOrdersFromCart("r1", {"c1"})
  \/ updateOrderStatus("r1", StatusInputs)
  \/ Tick

SpecCatalogue == Init /\ [][NextCatalogue]_vars

\* Two customers shopping for the same two products, one request at a time.
NextShop ==
  \/ addToCart(Customers, {"p1", "p2"}, {1}, {[startDate |-> 0, endDate |-> 2]})
  \/ createOrdersFromCart("r1", Customers)
  \/ updateOrderStatus("r1", StatusInputs)
  \/ Tick

InitShop == InitWith(InitStockShop)

SpecShop == InitShop /\ [][NextShop]_vars

\* Rental windows of half a day, one day and a day and a half.
PricingWindows == {[startDate |-> 0, endDate |-> 1], [startDate |-> 0, endDate |-> 2],
                   [startDate |-> 0, endDate |-> 3]}

\* One customer fills a cart with one or two units of the first two products,
\* rented over windows of different lengths or bought, and checks out.
NextPricing ==
  \/ addToCart({"c1"}, {"p1", "p2"}, {1, 2}, PricingWindows)
  \/ createOrdersFromCart("r1", {"c1"})

SpecPricing == Init /\ [][NextPricing]_vars

\* Quantities and windows a request body may carry: any number passes the
\* controller's typeof check; a window may be inverted, empty or lack a date.
InputQuantities == {0 - 1, 0, 1}
InputWindows == {[startDate |-> 0, endDate |-> 2], [startDate |-> 2, endDate |-> 0],
                 [startDate |-> 1, endDate |-> 1], [startDate |-> NoDate, endDate |-> 2],
                 [startDate |-> 0, endDate |-> NoDate]}

\* One customer posts arbitrary lines for the first two products and checks
\* out; the vendor approves and withdraws approval.
NextInput ==
  \/ addToCart({"c1"}, {"p1", "p2"}, InputQuantities, InputWindows)
  \/ createOrdersFromCart("r1", {"c1"})
  \/ updateOrderStatus("r1", StatusInputs)

SpecInput == Init /\ [][NextInput]_vars

\* Carts filled by upsertCart from the seeded stock: the first customer rents
\* one unit of each of the first two products, the second customer one unit of
\* the second product over an overlapping window.
InitCartRentals ==
  [c \in Customers |->
     IF c = "c1"
     THEN ("p1" :> [quantity |-> 1, startDate |-> 0, endDate |-> 2, isService |-> TRUE])
          @@ ("p2" :> [quantity |-> 1, startDate |-> 0, endDate |-> 2, isService |-> TRUE])
     ELSE ("p2" :> [quantity |-> 1, startDate |-> 1, endDate |-> 3, isService |-> TRUE])]

InitRentals ==
  /\ avail = NoCall
  /\ stock = InitStock
  /\ movements = <<>>
  /\ orders = <<>>
  /\ cart = InitCartRentals
  /\ now = 0
  /\ req = [r \in Procs |-> NoReq]
  /\ nreq = 0
  /\ invoices = <<>>
  /\ paymentLedgers = <<>>

\* Both customers check out; the second also buys; the vendor approves and
\* withdraws approval, one request at a time.
NextRentals ==
  \/ addToCart({"c2"}, {"p1"}, {1}, {[startDate |-> 1, endDate |-> 3]})
  \/ createOrdersFromCart("r1", Customers)
  \/ updateOrderStatus("r1", StatusInputs)
  \/ Tick

SpecRentals == InitRentals /\ [][NextRentals]_vars

\* Carts filled by upsertCart from the seeded stock: the first customer rents
\* a unit of each of the first two products, the second customer buys a unit of
\* the first.
InitCartBilling ==
  [c \in Customers |->
     IF c = "c1"
     THEN ("p1" :> [quantity |-> 1, startDate |-> 0, endDate |-> 2, isService |-> TRUE])
          @@ ("p2" :> [quantity |-> 1, startDate |-> 0, endDate |-> 2, isService |-> TRUE])
     ELSE ("p1" :> [quantity |-> 1, startDate |-> NoDate, endDate |-> NoDate,
                    isService |-> FALSE])]

InitBilling ==
  /\ avail = NoCall
  /\ stock = InitStock
  /\ movements = <<>>
  /\ orders = <<>>
  /\ cart = InitCartBilling
  /\ now = 0
  /\ req = [r \in Procs |-> NoReq]
  /\ nreq = 0
  /\ invoices = <<>>
  /\ paymentLedgers = <<>>

\* Checkout, the order lifecycle and billing by the owning vendor, one request
\* at a time.
NextBilling ==
  \/ createOrdersFromCart("r1", Customers)
  \/ updateOrderStatus("r1", StatusInputs)
  \/ createInvoice("r1", {"vA"}, RandomSuffixes)
  \/ updateInvoiceStatus("r1", {"vA"}, DeliveryStatus)
  \/ calculateReturn("r1", {"vA"})
  \/ Tick

SpecBilling == InitBilling /\ [][NextBilling]_vars

\* Every caller, with or without a token and of every role, sends requests to
\* the sales-order routes, one request at a time.
NextAuth ==
  \/ postOrder("r1", Callers)
  \/ patchOrderStatus("r1", Callers, StatusInputs)
  \/ postInvoice("r1", Callers, {"1000"})
  \/ patchInvoiceStatus("r1", Callers, {"DISPATCHED"})

SpecAuth == InitBilling /\ [][NextAuth]_vars

\* ------------------------------------------- checkStockAvailability alone
\* The ledger of the overlap example: 10 units, 6 of them out over [1, 5).
ExampleStock == [p \in ProductIds |-> IF p = "p1" THEN StockRow(10) ELSE NoRow]
ExampleMoves == <<movement("p1", 0, "RENTAL", 6, 1, 5, 0)>>
ExampleCalls == {[startDate |-> 3, endDate |-> 10, requestedQuantity |-> 5],
                 [startDate |-> 5, endDate |-> 10, requestedQuantity |-> 9]}

\* Instants of the ledgers and calls: enough for adjacent and nested windows.
AvailTimes == 0..2
\* Movements a ledger may hold: live ones of the product, a soft-deleted one
\* and one of another product; rentals with a window and sales with
\* startDate = endDate.
AvailMoves ==
  {[productId |-> k.p, orderId |-> 0, moveType |-> IF s = e THEN "SALE" ELSE "RENTAL",
    quantity |-> k.q, startDate |-> s, endDate |-> e, deletedAt |-> k.d, rid |-> 0] :
     k \in {[p |-> "p1", q |-> 1, d |-> Null], [p |-> "p1", q |-> 2, d |-> Null],
            [p |-> "p1", q |-> 1, d |-> "deleted"], [p |-> "p2", q |-> 1, d |-> Null]},
     s \in AvailTimes, e \in AvailTimes}
AvailLedgers ==
  UNION {[1..n -> {m \in AvailMoves : m.startDate <= m.endDate}] : n \in 0..MaxMoves}
AvailCalls ==
  ExampleCalls \cup
  {[startDate |-> s, endDate |-> e, requestedQuantity |-> q] :
     s \in AvailTimes, e \in AvailTimes, q \in 0..2}

InitAvail ==
  /\ \/ /\ stock \in {[p \in ProductIds |-> IF p = "p1" THEN row ELSE NoRow] :
                        row \in {NoRow} \cup {StockRow(n) : n \in 0..MaxStock}}
        /\ movements \in AvailLedgers
     \/ /\ stock = ExampleStock
        /\ movements = ExampleMoves
  /\ orders = <<>>
  /\ cart = [c \in Customers |-> <<>>]
  /\ now = 0
  /\ req = [r \in Procs |-> NoReq]
  /\ nreq = 0
  /\ invoices = <<>>
  /\ paymentLedgers = <<>>
  /\ avail = NoCall

\* cartService.checkStockAvailability(productId, startDate, endDate, qty)
availabilityCall(productId, startDate, endDate, requestedQuantity) ==
  /\ ~avail.called
  /\ startDate < endDate
  /\ avail' = [productId |-> productId, startDate |-> startDate, endDate |-> endDate,
               requestedQuantity |-> requestedQuantity, called |-> TRUE,
               result |-> checkStockAvailability(stock, movements, productId,
                                                 startDate, endDate, requestedQuantity)]
  /\ UNCHANGED <<invoices, paymentLedgers, stock, movements, orders, cart, now, req, nreq>>

NextAvail ==
  \E c \in AvailCalls :
     availabilityCall("p1", c.startDate, c.endDate, c.requestedQuantity)

SpecAvail == InitAvail /\ [][NextAvail]_vars

\* ------------------------------------------------- calculateReturn alone
\* End dates of the lines and instants of the call, in half days: a line is not
\* yet due, due at this instant, or late by 1, 3, 5 or 6 half days.
ReturnEndDates == {NoDate, 1, 4}
ReturnTimes == {1, 2, 4, 6, 7}

\* Lines an order may hold, as the checkout writes them: a rental of one or two
\* units ending at the end date, or a purchase without dates.
ReturnDetails ==
  {[productId |-> p, quantity |-> q, unitPrice |-> dailyPrice[p],
    subtotal |-> subtotal([productId |-> p, quantity |-> q, startDate |-> 0,
                           endDate |-> e], e # NoDate),
    totalDepositAmount |-> securityDeposit[p] * q,
    start_date |-> IF e = NoDate THEN NoDate ELSE 0, end_date |-> e] :
     p \in {"p1", "p2"}, q \in 1..2, e \in ReturnEndDates}

\* The settled order, and a second order of the same vendor whose invoices and
\* payments must stay out of the sums.
ReturnOrders ==
  {<<[customerId |-> "c1", vendorId |-> "vA", isService |-> TRUE, status |-> "APPROVED",
      totalOrderValue |-> SumSeq([k \in 1..Len(d) |-> d[k].subtotal]),
      details |-> d, rid |-> 0],
     [customerId |-> "c2", vendorId |-> "vA", isService |-> FALSE, status |-> "APPROVED",
      totalOrderValue |-> 100,
      details |-> <<[productId |-> "p1", quantity |-> 1, unitPrice |-> 100,
                     subtotal |-> 100, totalDepositAmount |-> 500,
                     start_date |-> NoDate, end_date |-> NoDate]>>,
      rid |-> 0]>> :
     d \in UNION {[1..n -> ReturnDetails] : n \in 1..2}}

\* sales_invoice rows: of the settled order (1250 + 18%) and of the other one.
ReturnInvoices ==
  {[k \in 1..Len(o) |->
      [orderId |-> o[k], invoiceNumber |-> <<0, k>>,
       taxAmount |-> IF o[k] = 1 THEN 225 ELSE 18,
       grandTotal |-> IF o[k] = 1 THEN 1475 ELSE 118,
       deliveryStatus |-> "DELIVERED", isPaid |-> FALSE, rid |-> 0]] :
     o \in UNION {[1..n -> {1, 2}] : n \in 0..2}}

\* payment_ledger rows: a full payment of an invoice of either order.
ReturnLedgers ==
  {[k \in 1..Len(o) |->
      [orderId |-> o[k], amountPaid |-> IF o[k] = 1 THEN 1475 ELSE 118]] :
     o \in UNION {[1..n -> {1, 2}] : n \in 0..2}}

InitReturn ==
  /\ orders \in ReturnOrders
  /\ invoices \in ReturnInvoices
  /\ paymentLedgers \in ReturnLedgers
  /\ now \in ReturnTimes
  /\ stock = InitStock
  /\ movements = <<>>
  /\ cart = [c \in Customers |-> <<>>]
  /\ req = [r \in Procs |-> NoReq]
  /\ nreq = 0
  /\ avail = NoCall

NextReturn == calculateReturn("r1", {"vA"})

SpecReturn == InitReturn /\ [][NextReturn]_vars

\* ----------------------------------------------------- what a call wrote
\* Orders and movements are tagged with the request that created them.
ordersBy(rid) == {k \in 1..Len(orders) : orders[k].rid = rid}
movementsBy(rid) == {k \in 1..Len(movements) : movements[k].rid = rid}
movementsOf(orderId) == {k \in 1..Len(movements) : movements[k].orderId = orderId}

\* The ledger without the movements the given requests wrote.
ledgerWithout(rids) ==
  SelectSeqBy(movements, {k \in 1..Len(movements) : movements[k].rid \notin rids})

\* Units of the product free over [startDate, endDate) according to the ledger.
freeUnits(mvs, productId, startDate, endDate) ==
  totalOrZero(stock[productId]) - bookedQuantity(mvs, productId, startDate, endDate)

\* Handler r has completed an approval of a one-line DRAFT rental order.
approvedRental(r) ==
  /\ req[r].op = "status" /\ req[r].pc = "done" /\ req[r].status = "APPROVED"
  /\ req[r].order.isService /\ req[r].order.status = "DRAFT"
  /\ Len(req[r].order.details) = 1

\* ------------------------------------------------------------------ claims
\* C1: two concurrent approvals of two different DRAFT rental orders for the
\* same product and overlapping windows, one unit each with one unit free, never
\* both succeed.
C1_OneApprovalWins ==
  \A a, b \in Procs :
     (a # b /\ approvedRental(a) /\ approvedRental(b)
        /\ req[a].orderId # req[b].orderId) =>
     LET da == req[a].order.details[1]
         db == req[b].order.details[1]
         others == ledgerWithout({req[a].rid, req[b].rid})
     IN ~ /\ da.productId = db.productId
          /\ da.quantity = 1 /\ db.quantity = 1
          /\ da.start_date < db.end_date /\ db.start_date < da.end_date
          /\ freeUnits(others, da.productId, da.start_date, da.end_date) = 1
          /\ freeUnits(others, db.productId, db.start_date, db.end_date) = 1

\* C2: for every product and every window, the total quantity minus the
\* quantity of the live movements overlapping the window is never negative.
C2_NeverOverbooked ==
  \A p \in ProductIds, s \in 0..3, e \in 0..3 :
     s < e => freeUnits(movements, p, s, e) >= 0

\* C3: totalPhysicalQuantity of every product is never negative.
C3_StockNeverNegative ==
  \A p \in ProductIds : stock[p].totalPhysicalQuantity >= 0

\* C4: approving an order that is already APPROVED creates no stock movement
\* and changes no stock row: no step of such a call touches either.
C4_ApprovedTwiceIsNoop ==
  [][(/\ req'["r1"].op = "status"
      /\ req'["r1"].status = "APPROVED"
      /\ req'["r1"].order.status = "APPROVED")
     => (movements' = movements /\ stock' = stock)]_vars

\* An approval of an APPROVED order that holds stock movements has completed.
C4_Witness ==
  /\ req["r1"].op = "status" /\ req["r1"].pc = "done"
  /\ req["r1"].status = "APPROVED" /\ req["r1"].order.status = "APPROVED"
  /\ movementsOf(req["r1"].orderId) # {}

\* The cart line passes the availability check of checkout against the store.
linePasses(item) ==
  IF item.isService
  THEN checkStockAvailability(stock, movements, item.productId,
                              item.startDate, item.endDate, item.quantity)
  ELSE totalOrZero(item.stock) >= item.quantity

\* The call of handler r created nothing and left stock and cart alone.
wroteNothing(r) ==
  /\ ordersBy(req[r].rid) = {}
  /\ movementsBy(req[r].rid) = {}
  /\ req[r].dec = ZeroDec
  /\ ~req[r].cleared
  /\ \A k \in 1..Len(req[r].cartItems) :
        LET item == req[r].cartItems[k]
        IN item.productId \in DOMAIN cart[req[r].customerId]

\* C5: a checkout in which any line fails its availability check fails, and it
\* creates no order, no detail and no movement, changes no stock and leaves the
\* cart alone, wherever the failing line stands; the call gets to creating
\* orders only when every line passed.
C5_FailedCheckWritesNothing ==
  \A r \in Procs :
     req[r].op = "checkout" =>
       /\ (req[r].pc = "failed" /\ req[r].error = "InsufficientStock")
             => wroteNothing(r)
       /\ (req[r].pc = "create" /\ req[r].g = 1)
             => \A k \in 1..Len(req[r].cartItems) : linePasses(req[r].cartItems[k])

\* A two-line checkout failed on its second line while other orders exist.
C5_Witness ==
  /\ req["r1"].op = "checkout" /\ req["r1"].pc = "failed"
  /\ req["r1"].error = "InsufficientStock"
  /\ Len(req["r1"].cartItems) = 2
  /\ linePasses(req["r1"].cartItems[1])
  /\ ~linePasses(req["r1"].cartItems[2])
  /\ orders # <<>>

\* C6: an approval of a purchase order that fails leaves every stock row, the
\* movements and the order's status as they were.
C6_ApprovalAllOrNothing ==
  \A r \in Procs :
     (/\ req[r].op = "status" /\ req[r].pc = "failed"
      /\ req[r].status = "APPROVED" /\ req[r].error = "InsufficientStock"
      /\ ~req[r].order.isService)
     => /\ movementsBy(req[r].rid) = {}
        /\ req[r].dec = ZeroDec
        /\ orders[req[r].orderId].status = req[r].order.status

\* C7: a checkout that fails leaves no order, no detail and no movement of its
\* own behind and no stock decrement.
C7_CheckoutAllOrNothing ==
  \A r \in Procs :
     (req[r].op = "checkout" /\ req[r].pc = "failed")
     => /\ ordersBy(req[r].rid) = {}
        /\ movementsBy(req[r].rid) = {}
        /\ req[r].dec = ZeroDec

\* Purchase lines of the groups of a checkout.
RECURSIVE purchaseLines(_)
purchaseLines(groups) ==
  IF groups = <<>> THEN 0
  ELSE (IF Head(groups).isService THEN 0 ELSE Len(Head(groups).items))
       + purchaseLines(Tail(groups))

\* C8: the only step of a request that changes a cart is the last step of a
\* checkout, taken when every group has its order and every purchase line its
\* stock movement; it empties the customer's cart and the call returns.  A
\* checkout that fails has therefore left the cart as it found it.
C8_CartClearedLast ==
  [][\A c \in Customers :
        (cart'[c] # cart[c] /\ req' # req) =>
          \E r \in Procs :
             /\ req[r].op = "checkout" /\ req[r].pc = "clear"
             /\ req[r].customerId = c
             /\ Len(req[r].createdOrders) = Len(req[r].groups)
             /\ Cardinality(movementsBy(req[r].rid)) = purchaseLines(req[r].groups)
             /\ req'[r].pc = "done"
             /\ cart'[c] = <<>>]_vars

\* A checkout failed after it created an order, and the cart still has its lines.
C8_Witness ==
  /\ req["r1"].op = "checkout" /\ req["r1"].pc = "failed"
  /\ ordersBy(req["r1"].rid) # {}
  /\ cart[req["r1"].customerId] # <<>>

RECURSIVE SumOver(_, _)
\* The sum of f over the set S.
SumOver(f, S) ==
  IF S = {} THEN 0
  ELSE LET x == CHOOSE x \in S : TRUE IN f[x] + SumOver(f, S \ {x})

\* Quantity booked over [startDate, endDate): the live movements of the product
\* that start before the end and end after the start.
refBooked(productId, startDate, endDate) ==
  LET counted == {k \in 1..Len(movements) :
                    /\ movements[k].productId = productId
                    /\ movements[k].deletedAt = Null
                    /\ ~(movements[k].endDate <= startDate)
                    /\ ~(movements[k].startDate >= endDate)}
  IN SumOver([k \in 1..Len(movements) |-> movements[k].quantity], counted)

\* C9: checkStockAvailability answers true exactly when total - booked >= qty,
\* with total 0 for a product without a stock row and booked the quantity of
\* the live movements m of the product with m.start < end and m.end > start;
\* with 10 units and 6 out over [1, 5), 5 over [3, 10) is refused and 9 over
\* [5, 10) is accepted.
C9_AvailabilityFormula ==
  avail.called =>
    /\ avail.result =
         ((IF stock[avail.productId].row
           THEN stock[avail.productId].totalPhysicalQuantity ELSE 0)
          - refBooked(avail.productId, avail.startDate, avail.endDate)
            >= avail.requestedQuantity)
    /\ (stock = ExampleStock /\ movements = ExampleMoves /\ avail.startDate = 3
        /\ avail.endDate = 10 /\ avail.requestedQuantity = 5) => ~avail.result
    /\ (stock = ExampleStock /\ movements = ExampleMoves /\ avail.startDate = 5
        /\ avail.endDate = 10 /\ avail.requestedQuantity = 9) => avail.result

\* A call was accepted although a live movement of the product ends exactly
\* where the requested window starts and, counted, would have refused it.
C9_Witness ==
  /\ avail.called /\ avail.result
  /\ \E k \in 1..Len(movements) :
        /\ movements[k].productId = avail.productId
        /\ movements[k].deletedAt = Null
        /\ movements[k].startDate < movements[k].endDate
        /\ movements[k].endDate = avail.startDate
        /\ totalOrZero(stock[avail.productId])
             - refBooked(avail.productId, avail.startDate, avail.endDate)
             - movements[k].quantity < avail.requestedQuantity

\* (vendorId, isService) pairs of the cart lines a checkout read.
groupsOfCart(items) ==
  {<<vendorId[items[k].productId], items[k].isService>> : k \in 1..Len(items)}

\* Detail lines (order, position) of the orders a checkout created that carry
\* the product.
detailsFor(created, productId) ==
  {<<o, d>> \in created \X (1..Len(ProductSeq)) :
      d <= Len(orders[o].details) /\ orders[o].details[d].productId = productId}

\* C10: a successful checkout creates exactly one order per (vendorId,
\* isService) pair of the cart, every cart line is exactly one detail line, with
\* its product and quantity, of the order of its own pair, and no order holds a
\* line of another vendor or of the other fulfilment type.
C10_OneOrderPerGroup ==
  \A r \in Procs :
     (req[r].op = "checkout" /\ req[r].pc = "done") =>
       LET items == req[r].cartItems
           created == {req[r].createdOrders[k] : k \in 1..Len(req[r].createdOrders)}
       IN /\ created = ordersBy(req[r].rid)
          /\ Len(req[r].createdOrders) = Cardinality(created)
          /\ Cardinality(created) = Cardinality(groupsOfCart(items))
          /\ {<<orders[o].vendorId, orders[o].isService>> : o \in created}
               = groupsOfCart(items)
          /\ SumOver([o \in created |-> Len(orders[o].details)], created) = Len(items)
          /\ \A k \in 1..Len(items) :
                LET at == detailsFor(created, items[k].productId)
                IN /\ Cardinality(at) = 1
                   /\ \A od \in at :
                         /\ orders[od[1]].details[od[2]].quantity = items[k].quantity
                         /\ orders[od[1]].vendorId = vendorId[items[k].productId]
                         /\ orders[od[1]].isService = items[k].isService
                         /\ orders[od[1]].customerId = req[r].customerId

\* A checkout of three lines, two of one vendor (a rental and a purchase) and
\* one of another vendor, returned three orders.
C10_Witness ==
  /\ req["r1"].op = "checkout" /\ req["r1"].pc = "done"
  /\ Len(req["r1"].cartItems) = 3
  /\ Len(req["r1"].createdOrders) = 3
  /\ \E j, k \in 1..3 :
        /\ vendorId[req["r1"].cartItems[j].productId]
             = vendorId[req["r1"].cartItems[k].productId]
        /\ req["r1"].cartItems[j].isService
        /\ ~req["r1"].cartItems[k].isService

\* Movements the request wrote for the order and the product.
movementsFor(rid, orderId, productId) ==
  {k \in movementsBy(rid) :
      movements[k].orderId = orderId /\ movements[k].productId = productId}

\* C11: an order starts APPROVED when it is a purchase order and DRAFT when it
\* is a rental order; the step that creates a rental order writes no movement
\* and changes no stock row, and the checkout never writes a movement for it.
C11_InitialStatus ==
  /\ [][Len(orders') > Len(orders) =>
          LET o == orders'[Len(orders')]
          IN /\ o.status = (IF o.isService THEN "DRAFT" ELSE "APPROVED")
             /\ o.isService => (movements' = movements /\ stock' = stock)]_vars
  /\ [](\A r \in Procs : \A o \in ordersBy(req[r].rid) :
           (req[r].op = "checkout" /\ orders[o].isService) =>
              \A k \in movementsBy(req[r].rid) : movements[k].orderId # o)
  /\ [](\A r \in Procs :
           (req[r].op = "checkout" /\ req[r].pc = "done"
              /\ \A k \in 1..Len(req[r].cartItems) : req[r].cartItems[k].isService)
           => (req[r].dec = ZeroDec /\ movementsBy(req[r].rid) = {}))

\* A checkout returned a rental order, still DRAFT and without movements, and
\* an APPROVED purchase order.
C11_Witness ==
  /\ req["r1"].op = "checkout" /\ req["r1"].pc = "done"
  /\ \E a, b \in ordersBy(req["r1"].rid) :
        /\ orders[a].isService /\ orders[a].status = "DRAFT"
        /\ movementsOf(a) = {}
        /\ ~orders[b].isService /\ orders[b].status = "APPROVED"
        /\ movementsOf(b) # {}

\* C12: a successful checkout has, for every line of every purchase order it
\* created, decremented the product's stock by the line's quantity and written
\* exactly one SALE movement of that quantity that references the order; every
\* such movement is written when the order row exists already.
C12_PurchaseStockEffect ==
  /\ [](\A r \in Procs :
          (req[r].op = "checkout" /\ req[r].pc = "done") =>
             /\ \A o \in ordersBy(req[r].rid) : \A d \in 1..Len(orders[o].details) :
                   ~orders[o].isService =>
                      LET detail == orders[o].details[d]
                          mv == movementsFor(req[r].rid, o, detail.productId)
                      IN /\ Cardinality(mv) = 1
                         /\ \A k \in mv : /\ movements[k].moveType = "SALE"
                                          /\ movements[k].quantity = detail.quantity
                         /\ req[r].dec[detail.productId] = detail.quantity
             /\ Cardinality(movementsBy(req[r].rid))
                  = Cardinality({k \in 1..Len(req[r].cartItems) :
                                   ~req[r].cartItems[k].isService}))
  /\ [][\A r \in Procs :
          (req[r].op = "checkout" /\ req'[r] # req[r] /\ req'[r].rid = req[r].rid) =>
             /\ Len(movements') > Len(movements) =>
                  LET m == movements'[Len(movements')]
                  IN /\ m.orderId \in 1..Len(orders)
                     /\ orders[m.orderId].rid = req[r].rid
                     /\ ~orders[m.orderId].isService
             /\ \A p \in ProductIds :
                  stock'[p].totalPhysicalQuantity
                    = stock[p].totalPhysicalQuantity - (req'[r].dec[p] - req[r].dec[p])]_vars

\* A checkout returned a purchase order of two lines whose units left the stock.
C12_Witness ==
  /\ req["r1"].op = "checkout" /\ req["r1"].pc = "done"
  /\ \E o \in ordersBy(req["r1"].rid) :
        /\ ~orders[o].isService /\ Len(orders[o].details) = 2
        /\ \A d \in 1..2 : orders[o].details[d].quantity = 1
        /\ Cardinality(movementsOf(o)) = 2
        /\ \A d \in 1..2 :
              stock[orders[o].details[d].productId].totalPhysicalQuantity
                = InitStock[orders[o].details[d].productId].totalPhysicalQuantity - 1

\* Handler r has completed the approval of a rental order that was not APPROVED.
rentalApprovalDone(r) ==
  /\ req[r].op = "status" /\ req[r].pc = "done" /\ req[r].status = "APPROVED"
  /\ req[r].order.isService /\ req[r].order.status # "APPROVED"

\* C13: a successful approval of a rental order changes no stock row and writes
\* exactly one RENTAL movement per detail line, with the line's product,
\* quantity and window and the order's id.
C13_RentalApprovalEffect ==
  /\ [](\A r \in Procs :
          rentalApprovalDone(r) =>
             LET details == req[r].order.details
             IN /\ Cardinality(movementsBy(req[r].rid)) = Len(details)
                /\ req[r].dec = ZeroDec
                /\ \A d \in 1..Len(details) :
                      LET mv == movementsFor(req[r].rid, req[r].orderId,
                                             details[d].productId)
                      IN /\ Cardinality(mv) = 1
                         /\ \A k \in mv :
                               /\ movements[k].moveType = "RENTAL"
                               /\ movements[k].quantity = details[d].quantity
                               /\ movements[k].startDate = details[d].start_date
                               /\ movements[k].endDate = details[d].end_date)
  /\ [][\A r \in Procs :
          (req'[r] # req[r] /\ req'[r].op = "status" /\ req'[r].order.isService)
             => stock' = stock]_vars

\* The approval of a two-line rental order has completed.
C13_Witness ==
  /\ rentalApprovalDone("r1")
  /\ Len(req["r1"].order.details) = 2
  /\ Cardinality(movementsOf(req["r1"].orderId)) = 2

\* Handler r has failed the approval of a rental order on an availability
\* re-check or on a missing date.
rentalApprovalFailed(r) ==
  /\ req[r].op = "status" /\ req[r].pc = "failed" /\ req[r].status = "APPROVED"
  /\ req[r].order.isService
  /\ req[r].error \in {"InsufficientStock", "MissingDates"}

ledgerState == <<orders, invoices, stock, movements>>

\* Operations reserved to the vendor who owns the order.
VendorOps == {"status", "invoice", "invoiceStatus"}

\* C15: a step of updateOrderStatus, createInvoice or updateInvoiceStatus changes
\* orders, invoices, stock or movements only for a caller of role VENDOR whose
\* id is the order's vendorId, and a step of checkout only for a caller of role
\* CUSTOMER; a request without a valid token ends with 401, one with a role the
\* route does not allow with 403, one for a missing order or invoice with
\* not-found, one of a non-owner with unauthorized, and the step that refuses a
\* request changes none of the tables.
C15_OnlyOwningVendor ==
  /\ [][\A r \in Procs :
          (req'[r] # req[r] /\ ledgerState' # ledgerState) =>
             /\ req[r].pc \notin Finished
             /\ callerOf(req[r]) \in Users
             /\ req[r].op \in VendorOps =>
                  /\ role[callerOf(req[r])] = "VENDOR"
                  /\ callerOf(req[r]) = orders[req[r].orderId].vendorId
             /\ req[r].op = "checkout" => role[callerOf(req[r])] = "CUSTOMER"]_vars
  /\ [][\A r \in Procs :
          (req'[r] # req[r] /\ req'[r].pc = "failed"
             /\ req'[r].error \in {"401", "403", "OrderNotFound", "InvoiceNotFound",
                                   "Unauthorized"})
          => ledgerState' = ledgerState]_vars
  /\ [](\A r \in Procs :
          req[r].op \in VendorOps \cup {"checkout"} =>
             LET caller == callerOf(req[r])
                 passes == caller \in Users /\ role[caller] \in allowedRoles(req[r].op)
                 failedWith(e) == req[r].pc = "failed" /\ req[r].error = e
             IN /\ caller = NoToken => failedWith("401")
                /\ (caller \in Users /\ ~passes) => failedWith("403")
                /\ (passes /\ req[r].op \in {"status", "invoice"}) =>
                     IF req[r].orderId \notin 1..Len(orders)
                     THEN failedWith("OrderNotFound")
                     ELSE orders[req[r].orderId].vendorId # caller
                             => failedWith("Unauthorized")
                /\ (passes /\ req[r].op = "invoiceStatus") =>
                     IF req[r].invoiceId \notin 1..Len(invoices)
                     THEN failedWith("InvoiceNotFound")
                     ELSE orders[invoices[req[r].invoiceId].orderId].vendorId # caller
                             => failedWith("Unauthorized"))

\* A customer, whose role the status route lets through, asked to approve a
\* DRAFT order and was refused as not owning it; the order is still DRAFT.
C15_Witness ==
  /\ req["r1"].op = "status" /\ req["r1"].pc = "failed"
  /\ req["r1"].error = "Unauthorized"
  /\ req["r1"].status = "APPROVED"
  /\ req["r1"].vendorId \in Customers
  /\ req["r1"].orderId \in 1..Len(orders)
  /\ orders[req["r1"].orderId].status = "DRAFT"
  /\ movements = <<>>

\* The two steps updateInvoiceStatus takes.
deliverySteps == {<<"PROCESSING", "DISPATCHED">>, <<"DISPATCHED", "DELIVERED">>}

\* Handler r has answered an updateInvoiceStatus of the owning vendor for an
\* invoice that exists.
invoiceStatusAnswered(r) ==
  /\ req[r].op = "invoiceStatus" /\ req[r].pc \in {"done", "failed"}
  /\ req[r].invoiceId \in 1..Len(invoices)
  /\ req[r].error \notin {"InvoiceNotFound", "Unauthorized"}

\* C16: updateInvoiceStatus succeeds exactly for PROCESSING -> DISPATCHED and
\* DISPATCHED -> DELIVERED; for every other pair of current and requested status
\* it fails with an invalid-transition error and the invoice keeps its status.
C16_InvoiceTransitions ==
  /\ [](\A r \in Procs :
          invoiceStatusAnswered(r) =>
             LET before == req[r].invoice.deliveryStatus
                 after == invoices[req[r].invoiceId].deliveryStatus
             IN IF <<before, req[r].status>> \in deliverySteps
                THEN req[r].pc = "done" /\ after = req[r].status
                ELSE /\ req[r].pc = "failed" /\ req[r].error = "InvalidTransition"
                     /\ after = before)
  /\ [][\A r \in Procs :
          (req'[r] # req[r] /\ req[r].op = "invoiceStatus" /\ invoices' # invoices) =>
             /\ Len(invoices') = Len(invoices)
             /\ \A k \in 1..Len(invoices) :
                   invoices'[k] # invoices[k] =>
                      /\ k = req[r].invoiceId
                      /\ <<invoices[k].deliveryStatus, invoices'[k].deliveryStatus>>
                            \in deliverySteps
                      /\ invoices'[k]
                           = [invoices[k] EXCEPT !.deliveryStatus = req[r].status]]_vars

\* The owner's request to take a DISPATCHED invoice back to PROCESSING was
\* refused as an invalid transition.
C16_Witness ==
  /\ invoiceStatusAnswered("r1")
  /\ req["r1"].pc = "failed" /\ req["r1"].error = "InvalidTransition"
  /\ req["r1"].invoice.deliveryStatus = "DISPATCHED"
  /\ req["r1"].status = "PROCESSING"
  /\ invoices[req["r1"].invoiceId].deliveryStatus = "DISPATCHED"

\* C17: the delivery status of an invoice changes only by one step along
\* PROCESSING -> DISPATCHED -> DELIVERED -> COMPLETED, and an invoice in
\* RETURNED never changes status.
C17_LinearDelivery ==
  [][\A k \in 1..Len(invoices) :
        invoices'[k].deliveryStatus # invoices[k].deliveryStatus =>
           <<invoices[k].deliveryStatus, invoices'[k].deliveryStatus>>
              \in {<<"PROCESSING", "DISPATCHED">>, <<"DISPATCHED", "DELIVERED">>,
                   <<"DELIVERED", "COMPLETED">>}]_vars

\* taxAmount * 100 of the reference: the sum over the order's lines of
\* subtotal * taxPercentage of the line's product.
refTaxTimes100(order) ==
  SumOver([k \in 1..Len(order.details) |->
             order.details[k].subtotal * taxPercentage[order.details[k].productId]],
          1..Len(order.details))

\* C18: every invoice has taxAmount = sum of subtotal * taxPercentage / 100 over
\* the lines of its order, also for lines taxed at 0%, and grandTotal =
\* totalOrderValue + taxAmount; createInvoice stores it with deliveryStatus
\* PROCESSING and isPaid = false.
C18_InvoiceTotals ==
  /\ [](\A k \in 1..Len(invoices) :
          LET order == orders[invoices[k].orderId]
          IN /\ invoices[k].taxAmount * 100 = refTaxTimes100(order)
             /\ invoices[k].grandTotal = order.totalOrderValue + invoices[k].taxAmount)
  /\ [][Len(invoices') > Len(invoices) =>
          /\ invoices'[Len(invoices')].deliveryStatus = "PROCESSING"
          /\ ~invoices'[Len(invoices')].isPaid]_vars

\* The order was approved at some time: a purchase order is created APPROVED,
\* and the approval of a rental order writes its RENTAL movements.
everApproved(orderId) ==
  ~orders[orderId].isService \/ movementsOf(orderId) # {}

\* C19: no invoice exists for an order that is DRAFT, SENT or REJECTED and was
\* never approved.
C19_InvoiceAfterApproval ==
  \A k \in 1..Len(invoices) :
     orders[invoices[k].orderId].status \in {"DRAFT", "SENT", "REJECTED"}
        => everApproved(invoices[k].orderId)

\* ------------------------------------------------------------------- C20
\* Days late: the least number of whole days that covers the delay.
refLateDays(delay) ==
  CHOOSE n \in 0..delay : n * DayLen >= delay /\ (n = 0 \/ (n - 1) * DayLen < delay)

\* The settlement of the order from the tables as they are.
refSettlement(orderId) ==
  LET d == orders[orderId].details
      grandTotal == SumOver([k \in 1..Len(invoices) |-> invoices[k].grandTotal],
                           {k \in 1..Len(invoices) : invoices[k].orderId = orderId})
      totalPaid == SumOver([k \in 1..Len(paymentLedgers) |-> paymentLedgers[k].amountPaid],
                          {k \in 1..Len(paymentLedgers) :
                             paymentLedgers[k].orderId = orderId})
      totalDeposit == SumOver([k \in 1..Len(d) |-> d[k].totalDepositAmount], 1..Len(d))
      totalLateFee ==
        SumOver([k \in 1..Len(d) |->
                  IF d[k].end_date = NoDate \/ d[k].end_date >= now THEN 0
                  ELSE d[k].unitPrice * d[k].quantity * refLateDays(now - d[k].end_date)],
               1..Len(d))
  IN [grandTotal |-> grandTotal, totalPaid |-> totalPaid,
      totalDeposit |-> totalDeposit, totalLateFee |-> totalLateFee,
      finalPayment |-> totalDeposit + totalPaid - grandTotal - totalLateFee]

\* Handler r has computed the settlement of an order.
settled(r) == req[r].op = "return" /\ req[r].pc \in {"r_update", "done"}

\* C20: calculateReturn returns grandTotal = the sum of grandTotal over the
\* order's invoices, totalPaid = the sum of amountPaid over its payment-ledger
\* entries, totalDeposit = the sum of the details' deposits, totalLateFee = the
\* sum over the details whose end date has passed of unitPrice * quantity *
\* days late rounded up (no end date or not yet due: 0), and finalPayment =
\* totalDeposit + totalPaid - grandTotal - totalLateFee; 1475/1475/500/0 gives
\* 500.
C20_Settlement ==
  \A r \in Procs :
    settled(r) =>
      /\ req[r].result = refSettlement(req[r].orderId)
      /\ (/\ req[r].result.grandTotal = 1475 /\ req[r].result.totalPaid = 1475
          /\ req[r].result.totalDeposit = 500 /\ req[r].result.totalLateFee = 0)
         => req[r].result.finalPayment = 500

\* A line of 2 units at 100 a day returned 5 half days late (3 days, rounded
\* up) adds 600.
C20_Witness ==
  \E r \in Procs :
    /\ req[r].op = "return" /\ req[r].pc = "done" /\ req[r].orderId = 1
    /\ Len(orders[1].details) = 1
    /\ orders[1].details[1].unitPrice = 100 /\ orders[1].details[1].quantity = 2
    /\ orders[1].details[1].end_date # NoDate
    /\ now - orders[1].details[1].end_date = 5
    /\ req[r].result.totalLateFee = 600
    /\ req[r].result.totalDeposit = 1000
    /\ req[r].result.finalPayment =
         1000 + req[r].result.totalPaid - req[r].result.grandTotal - 600

\* ------------------------------------------------------------------- C21
\* The invoices after every invoice of the order is marked COMPLETED.
markedCompleted(orderId) ==
  [k \in 1..Len(invoices) |->
     IF invoices[k].orderId = orderId
     THEN [invoices[k] EXCEPT !.deliveryStatus = "COMPLETED"]
     ELSE invoices[k]]

refRentalDays(startDate, endDate) ==
  LET len == IF endDate >= startDate THEN endDate - startDate ELSE startDate - endDate
  IN CHOOSE n \in 1..(len + 1) :
       n * DayLen >= len /\ (n = 1 \/ (n - 1) * DayLen < len)

\* The subtotal of a detail line by the pricing rule.
refSubtotal(order, d) ==
  IF order.isService
  THEN dailyPrice[d.productId] * d.quantity * refRentalDays(d.start_date, d.end_date)
  ELSE dailyPrice[d.productId] * d.quantity

\* C22: every order created by checkout prices a rental line at unitPrice *
\* quantity * rentalDays with rentalDays = max(1, ceil(|end - start| / 1 day)),
\* a purchase line at unitPrice * quantity, a line's deposit total at
\* securityDeposit * quantity (0 without deposit), and totalOrderValue is the
\* sum of the subtotals without the deposits.
C22_CheckoutPricing ==
  \A o \in 1..Len(orders) :
    LET order == orders[o]
        d == order.details
    IN /\ \A k \in 1..Len(d) :
            /\ d[k].unitPrice = dailyPrice[d[k].productId]
            /\ d[k].subtotal = refSubtotal(order, d[k])
            /\ d[k].totalDepositAmount = securityDeposit[d[k].productId] * d[k].quantity
       /\ order.totalOrderValue =
            SumOver([k \in 1..Len(d) |-> refSubtotal(order, d[k])], 1..Len(d))

\* A rental order of two units of the first product for a day and a half (two
\* days: 400, deposit 1000) and one unit of the second for half a day (one day:
\* 50, no deposit), worth 450.
C22_Witness ==
  \E o \in 1..Len(orders) :
    /\ orders[o].isService /\ Len(orders[o].details) = 2
    /\ orders[o].totalOrderValue = 450
    /\ \E k \in 1..2 :
         LET d == orders[o].details[k]
         IN /\ d.productId = "p1" /\ d.quantity = 2
            /\ d.end_date - d.start_date = 3
            /\ d.subtotal = 400 /\ d.totalDepositAmount = 1000
    /\ \E k \in 1..2 :
         LET d == orders[o].details[k]
         IN /\ d.productId = "p2" /\ d.quantity = 1
            /\ d.end_date - d.start_date = 1
            /\ d.subtotal = 50 /\ d.totalDepositAmount = 0

\* ------------------------------------------------------------------- C23
\* C23: upsertCart never stores a rental line with a missing start or end date
\* or with start >= end, and never stores a line whose quantity is zero or
\* negative; every line checkout reads has quantity >= 1 and, if rental, start
\* strictly before end.
C23_CartLinesWellFormed ==
  /\ \A c \in Customers : \A p \in DOMAIN cart[c] :
       LET line == cart[c][p]
       IN /\ line.quantity >= 1
          /\ line.isService =>
               /\ line.startDate # NoDate /\ line.endDate # NoDate
               /\ line.startDate < line.endDate
  /\ \A r \in Procs : \A k \in 1..Len(req[r].cartItems) :
       LET item == req[r].cartItems[k]
       IN /\ item.quantity >= 1
          /\ item.isService =>
               /\ item.startDate # NoDate /\ item.endDate # NoDate
               /\ item.startDate < item.endDate

\* ------------------------------------------------------------------- C24
\* Units of the product on the purchase orders' detail lines.
purchasedUnits(productId) ==
  SumOver([o \in 1..Len(orders) |->
             IF orders[o].isService THEN 0
             ELSE SumOver([k \in 1..Len(orders[o].details) |->
                             IF orders[o].details[k].productId = productId
                             THEN orders[o].details[k].quantity ELSE 0],
                          1..Len(orders[o].details))],
          1..Len(orders))

\* C24: over any sequence of updateOrderStatus calls by the owning vendor the
\* stock effect of an order is applied at most once: the movements referencing
\* an order never outnumber its detail lines, and a purchase line's quantity is
\* deducted from totalPhysicalQuantity at most once.
C24_StockEffectOnce ==
  /\ \A o \in 1..Len(orders) :
       Cardinality(movementsOf(o)) <= Len(orders[o].details)
  /\ \A p \in ProductIds :
       stock[p].row =>
         InitStock[p].totalPhysicalQuantity - stock[p].totalPhysicalQuantity
           <= purchasedUnits(p)

\* ------------------------------------------------------------------- C25
\* The two handlers served overlapping approvals of the same order, each having
\* fetched it before it was approved; both have ended and one succeeded.
concurrentApprovals ==
  /\ \A r \in Procs :
       /\ req[r].op = "status" /\ req[r].status = "APPROVED"
       /\ req[r].pc \in {"done", "failed"}
       /\ req[r].order.status \notin {Null, "APPROVED"}
  /\ req["r1"].orderId = req["r2"].orderId
  /\ req["r2"].rid = req["r1"].rid + 1
  /\ \E r \in Procs : req[r].pc = "done"

\* C25: two concurrent updateOrderStatus(..., APPROVED) requests on the same
\* non-approved order apply its stock effect once: the two requests together
\* leave exactly one movement per detail line, and for a purchase order deduct
\* each line's quantity exactly once.
C25_ConcurrentApprovalOnce ==
  concurrentApprovals =>
    LET o == req["r1"].orderId
        d == orders[o].details
        rids == {req["r1"].rid, req["r2"].rid}
    IN /\ Cardinality({k \in movementsOf(o) : movements[k].rid \in rids}) = Len(d)
       /\ ~orders[o].isService =>
            \A p \in ProductIds :
              req["r1"].dec[p] + req["r2"].dec[p] =
                SumOver([k \in 1..Len(d) |->
                           IF d[k].productId = p THEN d[k].quantity ELSE 0], 1..Len(d))

\* ------------------------------------------------------------------- C26
\* The two handlers served overlapping checkouts of the same customer with no
\* request in between; both have ended and one succeeded.
doubleSubmit ==
  /\ \A r \in Procs :
       req[r].op = "checkout" /\ req[r].pc \in {"done", "failed"}
  /\ req["r1"].customerId = req["r2"].customerId
  /\ req["r2"].rid = req["r1"].rid + 1
  /\ \E r \in Procs : req[r].pc = "done"

\* C26: two concurrent createOrdersFromCart requests of the same customer on
\* the same cart turn each cart line into a detail line of exactly one order,
\* and deduct a purchase line's quantity from stock once.
C26_DoubleSubmitOnce ==
  doubleSubmit =>
    LET rids == {req["r1"].rid, req["r2"].rid}
        items == req["r1"].cartItems
        made == {o \in 1..Len(orders) : orders[o].rid \in rids}
    IN \A k \in 1..Len(items) :
         /\ Cardinality({<<o, j>> \in made \X (1..Len(ProductSeq)) :
                           /\ j <= Len(orders[o].details)
                           /\ orders[o].details[j].productId = items[k].productId}) = 1
         /\ ~items[k].isService =>
              req["r1"].dec[items[k].productId] + req["r2"].dec[items[k].productId]
                = items[k].quantity

\* ------------------------------------------------------------------- C27
\* The cart line is a detail line, with its quantity and dates, of an order the
\* request created.
orderedBy(rid, productId, line) ==
  \E o \in ordersBy(rid) : \E j \in 1..Len(orders[o].details) :
    LET d == orders[o].details[j]
    IN /\ orders[o].isService = line.isService
       /\ d.productId = productId /\ d.quantity = line.quantity
       /\ d.start_date = line.startDate /\ d.end_date = line.endDate

\* C27: when a checkout completes, every line the customer's cart held just
\* before, including one added or updated while the checkout was in progress,
\* is a detail line of one of the created orders or is still in the cart.
C27_NoCartLineLost ==
  [][\A r \in Procs :
       (req[r].op = "checkout" /\ req[r].pc # "done" /\ req'[r].pc = "done"
          /\ req'[r].rid = req[r].rid)
       => LET c == req[r].customerId
          IN \A p \in DOMAIN cart[c] :
               \/ p \in DOMAIN cart'[c] /\ cart'[c][p] = cart[c][p]
               \/ orderedBy(req[r].rid, p, cart[c][p])]_vars

\* ------------------------------------------------------------------- C28
\* C28: no checkout or approval ever increases stock: for every cart content
\* upsertCart accepts, no step of createOrdersFromCart or updateOrderStatus
\* raises a product's totalPhysicalQuantity.
C28_StockNeverIncreases ==
  [][\A p \in ProductIds :
       /\ stock'[p].row = stock[p].row
       /\ stock'[p].totalPhysicalQuantity <= stock[p].totalPhysicalQuantity]_vars

\* ------------------------------------------------------------------- C29
\* Instants between which a rental window may lie.
WindowTimes == 0..3

\* C29: a sale of q units lowers the free quantity checkStockAvailability
\* computes for any rental window of the product by exactly q: the decrement
\* lowers it by q, so recording the SALE movement lowers it no further, also
\* for a window that contains the time of sale.
C29_SaleCountedOnce ==
  [][(/\ Len(movements') = Len(movements) + 1
      /\ movements'[Len(movements')].moveType = "SALE")
     => LET m == movements'[Len(movements')]
        IN \A s \in WindowTimes, e \in WindowTimes :
             s < e => freeUnits(movements', m.productId, s, e)
                        = freeUnits(movements, m.productId, s, e)]_vars

\* ------------------------------------------------------------------- C30
\* No operation is in progress.
quiescent == \A r \in Procs : req[r].pc \in Finished

\* Units of the product on the SALE movements.
soldUnits(productId) ==
  SumOver([k \in 1..Len(movements) |->
             IF movements[k].moveType = "SALE" /\ movements[k].productId = productId
             THEN movements[k].quantity ELSE 0],
          1..Len(movements))

\* C30: whenever no operation is in progress, also after operations that failed
\* part-way, for every product the amount by which createOrdersFromCart and
\* updateOrderStatus have decremented totalPhysicalQuantity equals the summed
\* quantity of the SALE movements of the product, and every SALE or RENTAL
\* movement references an existing order with a detail line for its product
\* with the same quantity.
C30_LedgerPairedWithCounter ==
  quiescent =>
    /\ \A p \in ProductIds :
         /\ stock[p].row = InitStock[p].row
         /\ InitStock[p].totalPhysicalQuantity - stock[p].totalPhysicalQuantity
              = soldUnits(p)
    /\ \A k \in 1..Len(movements) :
         /\ movements[k].moveType \in {"SALE", "RENTAL"}
         /\ movements[k].orderId \in 1..Len(orders)
         /\ \E j \in 1..Len(orders[movements[k].orderId].details) :
              LET d == orders[movements[k].orderId].details[j]
              IN d.productId = movements[k].productId
                 /\ d.quantity = movements[k].quantity

\* A checkout that failed after it had sold a unit: the decrement and its SALE
\* movement are both there.
C30_Witness ==
  /\ quiescent
  /\ \E r \in Procs :
       /\ req[r].op = "checkout" /\ req[r].pc = "failed"
       /\ req[r].dec["p1"] = 1
  /\ soldUnits("p1") = 1
  /\ stock["p1"].totalPhysicalQuantity = InitStock["p1"].totalPhysicalQuantity - 1

====
